---- MODULE Spec2Model ----
(***************************************************************************)
(* coroot-connect (src/connect.go): the manager loop that resolves the     *)
(* gateway endpoints and reconciles the tunnels, the per-tunnel            *)
(* keepConnected task with its backoff, Tunnel.Close, the gateway          *)
(* handshake of connect, and the accept loop of proxy.                     *)
(*                                                                         *)
(* Strings are sequences of one-character strings.  Durations are whole    *)
(* seconds.  A physical connection is "open" from the moment it is dialed  *)
(* until somebody calls Close on it.                                       *)
(***************************************************************************)
EXTENDS Integers, Sequences, FiniteSets, TLC

(***************************************************************************)
(* Program constants (src/connect.go:21-30).                               *)
(***************************************************************************)
Timeout == 10
BackoffFactor == 2
BackoffMin == 5
BackoffMax == 60
StatusOK == 200

(***************************************************************************)
(* Bounds of the exploration.                                              *)
(***************************************************************************)
\* tunnel objects that can exist at the same time
MaxTunnels == 3
\* connect attempts the running tunnels make between them in the
\* whole-program specification
MaxConnects == 1
\* consecutive resolver failures in the whole-program specification
MaxFailures == 1
\* value at which the attempt counter of a backoff stops being counted
\* (Duration is constant from the fifth attempt on)
MaxAttempt == 5
\* latency, in seconds, of a slow network operation
SlowIO == 6
Nil == "nil"
NoDeadline == -1
\* latency of an operation the gateway never completes
Forever == 3 * Timeout

(***************************************************************************)
(* github.com/jpillora/backoff as configured at connect.go:55 and :114:    *)
(* Duration() returns ForAttempt(attempt) and increments the counter,      *)
(* ForAttempt(n) = Min * Factor^n clamped to [Min, Max], Reset() zeroes    *)
(* the counter.                                                            *)
(***************************************************************************)
RECURSIVE Pow(_, _)
Pow(x, n) == IF n = 0 THEN 1 ELSE x * Pow(x, n - 1)

\* a duration with no ceiling
ForAttemptNoCap(attempt) == BackoffMin * Pow(BackoffFactor, attempt)

ForAttempt(attempt) ==
    LET dur == BackoffMin * Pow(BackoffFactor, attempt)
    IN  IF dur < BackoffMin THEN BackoffMin
        ELSE IF dur > BackoffMax THEN BackoffMax
        ELSE dur

\* the counter after Duration(); beyond MaxAttempt the duration no longer changes
NextAttempt(attempt) == IF attempt < MaxAttempt THEN attempt + 1 ELSE attempt

\* a Reset that leaves the counter alone
ResetKeep(attempt) == attempt

\* the counter after Reset()
Reset(attempt) == 0

(***************************************************************************)
(* Strings.                                                                *)
(***************************************************************************)
RECURSIVE TrimLeft(_)
TrimLeft(s) == IF s # <<>> /\ Head(s) = " " THEN TrimLeft(Tail(s)) ELSE s

RECURSIVE TrimRight(_)
TrimRight(s) ==
    IF s # <<>> /\ s[Len(s)] = " " THEN TrimRight(SubSeq(s, 1, Len(s) - 1)) ELSE s

\* strings.TrimSpace
TrimSpace(s) == TrimRight(TrimLeft(s))

RECURSIVE SplitFrom(_, _, _)
SplitFrom(s, cur, acc) ==
    IF s = <<>> THEN Append(acc, cur)
    ELSE IF Head(s) = ";" THEN SplitFrom(Tail(s), <<>>, Append(acc, cur))
    ELSE SplitFrom(Tail(s), Append(cur, Head(s)), acc)

\* strings.Split(s, ";"): never empty, Split("") = [""]
Split(s) == SplitFrom(s, <<>>, <<>>)

Range(f) == {f[i] : i \in DOMAIN f}

\* strings.Contains on token sequences
Contains(s, sub) ==
    \E i \in 0..(Len(s) - Len(sub)) : SubSeq(s, i + 1, i + Len(sub)) = sub

DigitChar == <<"0", "1", "2", "3", "4", "5", "6", "7", "8", "9">>

\* the %d verb of fmt
RECURSIVE Itoa(_)
Itoa(n) ==
    IF n < 10 THEN <<DigitChar[n + 1]>>
    ELSE Itoa(n \div 10) \o <<DigitChar[(n % 10) + 1]>>

\* binary.LittleEndian, uint16
PutU16(n) == <<n % 256, n \div 256>>

\* the status decoded in network byte order
U16BigEndian(bytes) == 256 * bytes[1] + bytes[2]

U16(bytes) == bytes[1] + 256 * bytes[2]

(***************************************************************************)
(* The handshake request (connect.go:163-173, 186-193): a Header of fixed  *)
(* width written little-endian, then the config.  Bytes are 0..255.        *)
(***************************************************************************)
TokenSize == 36
VersionSize == 16
U32Size == 4

\* the longest config given to connect on its own
MaxConfig == 2

\* uint32 in network byte order
PutU32BigEndian(n) ==
    <<(n \div 16777216) % 256, (n \div 65536) % 256, (n \div 256) % 256, n % 256>>

\* binary.LittleEndian, uint32
PutU32(n) ==
    <<n % 256, (n \div 256) % 256, (n \div 65536) % 256, (n \div 16777216) % 256>>

U32(bytes) == bytes[1] + 256 * bytes[2] + 65536 * bytes[3] + 16777216 * bytes[4]

\* copy(dst[:], s) into a zeroed array of n bytes (connect.go:170-172)
CopyInto(n, s) == [i \in 1..n |-> IF i <= Len(s) THEN s[i] ELSE 0]

\* uint32(n): the low 32 bits, as two halves of 16
Uint32(n) == (n % 65536) + 65536 * ((n \div 65536) % 65536)

\* connect.go:170-173
NewHeader(token, version, config) ==
    [Token |-> CopyInto(TokenSize, token),
     Version |-> CopyInto(VersionSize, version),
     ConfigSize |-> Uint32(Len(config))]

\* binary.Write(gwConn, binary.LittleEndian, h): the fields in order with no
\* padding between them (connect.go:186)
Marshal(h) == h.Token \o h.Version \o PutU32(h.ConfigSize)

HeaderSize == TokenSize + VersionSize + U32Size

\* the gateway's binary.Read of the header (connect_test.go:141-142)
Unmarshal(bytes) ==
    [Token |-> SubSeq(bytes, 1, TokenSize),
     Version |-> SubSeq(bytes, TokenSize + 1, TokenSize + VersionSize),
     ConfigSize |-> U32(SubSeq(bytes, TokenSize + VersionSize + 1, HeaderSize))]

\* the gateway's io.ReadFull of ConfigSize bytes (connect_test.go:146-147);
\* it gets no more than what was written
ReadConfig(bytes, h) ==
    IF HeaderSize + h.ConfigSize <= Len(bytes)
    THEN SubSeq(bytes, HeaderSize + 1, HeaderSize + h.ConfigSize)
    ELSE SubSeq(bytes, HeaderSize + 1, Len(bytes))

Fill(n, c) == [i \in 1..n |-> c]

\* tokens of up to TokenSize bytes, a zero byte among them
Tokens == { Fill(n, c) : n \in {0, 1, TokenSize - 1, TokenSize}, c \in {0, 98} }

\* "unknown" (connect.go:22), "1.2.3" (connect_test.go:23), none, and one
\* that fills the field
Versions ==
    { <<117, 110, 107, 110, 111, 119, 110>>, <<49, 46, 50, 46, 51>>, <<>>,
      Fill(VersionSize, 118) }

RECURSIVE SeqsUpTo(_, _)
SeqsUpTo(S, n) ==
    IF n = 0 THEN { <<>> }
    ELSE LET shorter == SeqsUpTo(S, n - 1)
         IN shorter \cup { Append(q, x) : q \in shorter, x \in S }

Configs == SeqsUpTo({0, 255}, MaxConfig)

NoHeader ==
    [pc |-> "idle", token |-> <<>>, version |-> <<>>, config |-> <<>>,
     wire |-> <<>>, h |-> NewHeader(<<>>, <<>>, <<>>), buf |-> <<>>]

(***************************************************************************)
(* getEndpoints (connect.go:145-161).  A resolver response is the outcome  *)
(* of http.DefaultClient.Do and io.ReadAll: a transport error, a body read *)
(* error, or a status with a body.                                         *)
(***************************************************************************)
Bodies == { <<"a", ";", "b">>, <<" ", "b", ";", "c", " ">> }

\* bodies at the edges of the format: empty, blank, and with a leading, a
\* trailing and a doubled separator
EdgeBodies ==
    { <<>>, <<" ">>, <<";", "a">>, <<"a", ";">>, <<"a", ";", ";", "b">>,
      <<"a">>, <<"a", ";", "b">> }

Statuses == {StatusOK, 500}

Responses ==
    { [transport |-> FALSE, bodyRead |-> FALSE, status |-> 0, body |-> <<>>],
      [transport |-> TRUE, bodyRead |-> FALSE, status |-> StatusOK, body |-> <<>>] }
    \cup [transport : {TRUE}, bodyRead : {TRUE}, status : Statuses, body : Bodies]

\* getEndpoints without the status check of connect.go:157
getEndpointsNoStatusCheck(resp) ==
    IF ~resp.transport THEN [err |-> TRUE, endpoints |-> <<>>]
    ELSE IF ~resp.bodyRead THEN [err |-> TRUE, endpoints |-> <<>>]
    ELSE [err |-> FALSE, endpoints |-> Split(TrimSpace(resp.body))]

getEndpoints(resp) ==
    IF ~resp.transport THEN [err |-> TRUE, endpoints |-> <<>>]
    ELSE IF ~resp.bodyRead THEN [err |-> TRUE, endpoints |-> <<>>]
    ELSE IF resp.status # StatusOK THEN [err |-> TRUE, endpoints |-> <<>>]
    ELSE [err |-> FALSE, endpoints |-> Split(TrimSpace(resp.body))]

(***************************************************************************)
(* connect (connect.go:169-208), one operator per blocking step.  The      *)
(* frame holds the locals of one call: the absolute deadline (seconds      *)
(* since the call started), the elapsed time, the connection and its       *)
(* deadline, the decoded status and the returned pair.  The gateway        *)
(* decides each step's latency and outcome, and the bytes it answers.      *)
(***************************************************************************)
Latencies == {0, SlowIO, Forever}

IO == [lat : Latencies, fail : BOOLEAN]

\* what the gateway sends after the handshake: the uint16 status alone, the
\* status with a message-size field and a message, or less than a status
Messages == { <<>>, <<"internal", "server", "error">> }

ReplyStatuses == {StatusOK, 500, 401, 0}

Replies ==
    [form : {"status", "short", "none"}, status : ReplyStatuses, msg : { <<>> }]
    \cup [form : {"message"}, status : ReplyStatuses, msg : Messages]

\* the bytes of a reply: binary.Write of the status (and of the message
\* size, then the message), or a stream that ends inside the status
Encode(r) ==
    CASE r.form = "status" -> PutU16(r.status)
      [] r.form = "message" -> PutU16(r.status) \o PutU16(Len(r.msg)) \o r.msg
      [] r.form = "short" -> <<r.status % 256>>
      [] OTHER -> <<>>

Addrs == { <<"a">>, <<"b">> }

NoErr == <<>>

IdleFrame ==
    [pc |-> "idle", addr |-> <<>>, elapsed |-> 0, deadline |-> NoDeadline,
     conn |-> "none", connDeadline |-> NoDeadline, resp |-> 0,
     ret |-> Nil, err |-> NoErr]

\* connect.go:170-176: deadline := time.Now().Add(timeout)
connectStart(addr) ==
    [IdleFrame EXCEPT !.pc = "dial", !.addr = addr, !.deadline = Timeout]

\* an operation that starts at `elapsed` under deadline `dl` and would take `lat`
Expired(elapsed, lat, dl) == dl # NoDeadline /\ elapsed + lat > dl

EndTime(elapsed, lat, dl) ==
    IF Expired(elapsed, lat, dl)
    THEN (IF elapsed > dl THEN elapsed ELSE dl)
    ELSE elapsed + lat

Cause(f, in, dl) ==
    IF Expired(f.elapsed, in.lat, dl) THEN <<"deadline exceeded">> ELSE <<"io error">>

\* return nil, fmt.Errorf(...)
Fail(f, conn, msg, cause) ==
    [f EXCEPT !.pc = "ret", !.conn = conn, !.ret = Nil,
              !.err = <<msg>> \o f.addr \o <<":">> \o cause]

\* a dial whose SetDeadline starts a new timeout
DialStepFreshDeadline(f, in) ==
    LET g == [f EXCEPT !.elapsed = EndTime(f.elapsed, in.lat, f.deadline)]
    IN  IF Expired(f.elapsed, in.lat, f.deadline) \/ in.fail
        THEN Fail(g, "none", "failed to establish a connection to",
                  Cause(f, in, f.deadline))
        ELSE [g EXCEPT !.pc = "writeHeader", !.conn = "open",
                       !.connDeadline = g.elapsed + Timeout]

\* connect.go:177-185: the dial under the dialer's deadline, then SetDeadline
DialStep(f, in) ==
    LET g == [f EXCEPT !.elapsed = EndTime(f.elapsed, in.lat, f.deadline)]
    IN  IF Expired(f.elapsed, in.lat, f.deadline) \/ in.fail
        THEN Fail(g, "none", "failed to establish a connection to",
                  Cause(f, in, f.deadline))
        ELSE [g EXCEPT !.pc = "writeHeader", !.conn = "open",
                       !.connDeadline = f.deadline]

\* connect.go:186-189: binary.Write(gwConn, binary.LittleEndian, h)
WriteHeaderStep(f, in) ==
    LET g == [f EXCEPT !.elapsed = EndTime(f.elapsed, in.lat, f.connDeadline)]
    IN  IF Expired(f.elapsed, in.lat, f.connDeadline) \/ in.fail
        THEN Fail(g, "closed", "failed to send config to",
                  Cause(f, in, f.connDeadline))
        ELSE [g EXCEPT !.pc = "writeConfig"]

\* connect.go:190-193: gwConn.Write(config)
WriteConfigStep(f, in) ==
    LET g == [f EXCEPT !.elapsed = EndTime(f.elapsed, in.lat, f.connDeadline)]
    IN  IF Expired(f.elapsed, in.lat, f.connDeadline) \/ in.fail
        THEN Fail(g, "closed", "failed to send config to",
                  Cause(f, in, f.connDeadline))
        ELSE [g EXCEPT !.pc = "readResp"]

\* connect.go:194-199: binary.Read of the uint16 status, then the deadline is cleared
ReadRespStep(f, in, reply) ==
    LET g == [f EXCEPT !.elapsed = EndTime(f.elapsed, in.lat, f.connDeadline)]
    IN  IF Expired(f.elapsed, in.lat, f.connDeadline) \/ in.fail
        THEN Fail(g, "closed", "failed to read the response from",
                  Cause(f, in, f.connDeadline))
        ELSE IF Len(reply) < 2
        THEN Fail(g, "closed", "failed to read the response from",
                  <<"unexpected EOF">>)
        ELSE [g EXCEPT !.pc = "checkResp", !.resp = U16(reply),
                       !.connDeadline = NoDeadline]

\* a status check that forgets gwConn.Close()
CheckRespStepNoClose(f) ==
    IF f.resp # StatusOK
    THEN Fail(f, f.conn, "failed to authenticate project on", Itoa(f.resp))
    ELSE [f EXCEPT !.pc = "ret", !.ret = "conn"]

\* connect.go:202-207
CheckRespStep(f) ==
    IF f.resp # StatusOK
    THEN Fail(f, "closed", "failed to authenticate project on", Itoa(f.resp))
    ELSE [f EXCEPT !.pc = "ret", !.ret = "conn"]

\* one gateway: its behaviour at each step of one handshake
Gateways == [dial : IO, hdr : IO, cfg : IO, rd : IO, reply : Replies]

Step(f, gw) ==
    CASE f.pc = "dial" -> DialStep(f, gw.dial)
      [] f.pc = "writeHeader" -> WriteHeaderStep(f, gw.hdr)
      [] f.pc = "writeConfig" -> WriteConfigStep(f, gw.cfg)
      [] f.pc = "readResp" -> ReadRespStep(f, gw.rd, Encode(gw.reply))
      [] f.pc = "checkResp" -> CheckRespStep(f)
      [] OTHER -> f

\* the frames of F one statement later
Run(F, gw) == { Step(f, gw) : f \in F }

\* the whole call: the frame after the five statements
connect(addr, gw) ==
    CHOOSE f \in Run(Run(Run(Run(Run({connectStart(addr)}, gw), gw), gw), gw), gw) : TRUE

\* the gateways a tunnel's calls meet: one that accepts the agent, one that
\* cannot be reached, one that stays silent while the configuration is
\* written, and one that rejects the token
Prompt == [lat |-> 0, fail |-> FALSE]

Healthy ==
    [dial |-> Prompt, hdr |-> Prompt, cfg |-> Prompt, rd |-> Prompt,
     reply |-> [form |-> "status", status |-> StatusOK, msg |-> <<>>]]

TunnelGateways ==
    { Healthy,
      [Healthy EXCEPT !.dial.fail = TRUE],
      [Healthy EXCEPT !.cfg.lat = Forever],
      [Healthy EXCEPT !.reply.status = 500] }

\* a caller that does not look at err
ResultIgnoreErr(f) == [ok |-> TRUE, ret |-> f.ret, conn |-> f.conn]

\* what keepConnected sees of a call: whether it got an error, and the
\* connection the call left behind
Result(f) == [ok |-> (f.err = NoErr), ret |-> f.ret, conn |-> f.conn]

(***************************************************************************)
(* proxy (connect.go:210-265): the accept loop of one session and the task *)
(* of each accepted stream.  Bytes are 0..255.                             *)
(***************************************************************************)
\* the streams the gateway opens on one session
MaxStreams == 2

\* two destinations that listen ("p", "q") and an address nobody listens on
Live == { <<112>>, <<113>> }

Dests == Live \cup { <<120>> }

\* what the gateway sends on a stream after the destination frame
Request == <<71, 69>>

\* what a destination answers to the request: each its own bytes
Answer(dst) == <<80>> \o dst

\* the destination frame (connect_test.go:96-99)
Frame(dst) == PutU16(Len(dst)) \o dst

\* the frames the gateway writes: whole ones, and one it abandons after no
\* byte or after the length
Frames ==
    { [dst |-> dst, cut |-> Len(Frame(dst))] : dst \in Dests }
        \cup { [dst |-> dst, cut |-> n] : dst \in { <<112>> }, n \in {0, 2} }

IsPrefix(p, q) == Len(p) <= Len(q) /\ p = SubSeq(q, 1, Len(p))

\* a stream the gateway has not opened
NoStream ==
    [pc |-> "none", name |-> <<>>, inbox |-> <<>>, sent |-> <<>>, gwClosed |-> "no",
     c |-> "none", dstLen |-> 0, dest |-> <<>>, destConn |-> Nil, dialed |-> <<>>,
     recv |-> <<>>, answered |-> <<>>, destOut |-> <<>>, back |-> <<>>,
     destEOF |-> FALSE, down |-> "none", failed |-> FALSE]

NoProxy ==
    [loop |-> "none", session |-> "none",
     streams |-> [i \in 1..MaxStreams |-> NoStream]]

\* a return that leaves the destination connection open
ReturnLeak(s, failed) == [s EXCEPT !.pc = "done", !.c = "closed", !.failed = failed]

\* the task returns: defer destConn.Close() if it got that far, defer
\* c.Close() (connect.go:231, 253)
Return(s, failed) ==
    [s EXCEPT !.pc = "done", !.c = "closed", !.failed = failed,
              !.destConn = IF @ = "open" THEN "closed" ELSE @]

\* a read of n bytes cannot complete: the gateway closed its side with fewer
\* bytes written, or the stream is closed
ShortRead(s, n) == Len(s.inbox) < n /\ (s.gwClosed # "no" \/ s.c = "closed")

\* a task that defers c.Close() only once the deadline is set
StSetDeadlineNoDefer(s, fail) ==
    IF fail \/ s.c = "closed" THEN [s EXCEPT !.pc = "done", !.failed = TRUE]
    ELSE [s EXCEPT !.pc = "readLen"]

\* connect.go:232-236
StSetDeadline(s, fail) ==
    IF fail \/ s.c = "closed" THEN Return(s, TRUE) ELSE [s EXCEPT !.pc = "readLen"]

\* connect.go:237-241
StReadLen(s, fail) ==
    IF fail \/ ShortRead(s, 2) THEN Return(s, TRUE)
    ELSE [s EXCEPT !.pc = "readDest", !.dstLen = U16(SubSeq(s.inbox, 1, 2)),
                   !.inbox = SubSeq(s.inbox, 3, Len(s.inbox))]

\* a read of the address that takes what is there
StReadDestPartial(s, fail) ==
    IF fail THEN Return(s, TRUE)
    ELSE [s EXCEPT !.pc = "dial",
                   !.dest = SubSeq(s.inbox, 1, IF Len(s.inbox) < s.dstLen
                                               THEN Len(s.inbox) ELSE s.dstLen),
                   !.inbox = SubSeq(s.inbox, (IF Len(s.inbox) < s.dstLen
                                              THEN Len(s.inbox) ELSE s.dstLen) + 1,
                                    Len(s.inbox))]

\* connect.go:242-247
StReadDest(s, fail) ==
    IF fail \/ ShortRead(s, s.dstLen) THEN Return(s, TRUE)
    ELSE [s EXCEPT !.pc = "dial", !.dest = SubSeq(s.inbox, 1, s.dstLen),
                   !.inbox = SubSeq(s.inbox, s.dstLen + 1, Len(s.inbox))]

\* the one destination of the variant without frames
StDialFixed(s, fail) ==
    IF fail THEN Return(s, TRUE)
    ELSE [s EXCEPT !.pc = "setDestDeadline", !.destConn = "open", !.dialed = <<112>>]

\* connect.go:248-252
StDial(s, fail) ==
    IF fail \/ s.dest \notin Live THEN Return(s, TRUE)
    ELSE [s EXCEPT !.pc = "setDestDeadline", !.destConn = "open", !.dialed = s.dest]

\* connect.go:253-260: the deadline of the destination connection, then the
\* task of the copy towards the stream is spawned
StSetDestDeadline(s, fail) ==
    IF fail THEN Return(s, TRUE) ELSE [s EXCEPT !.pc = "copy", !.down = "running"]

\* io.Copy(destConn, c) (connect.go:261): what the stream holds goes to the
\* destination; at the end of the stream, or at an error or the deadline,
\* io.Copy returns and so does the task
StCopyUp(s, fail) ==
    IF fail \/ s.c = "closed" THEN Return(s, TRUE)
    ELSE IF s.inbox # <<>>
    THEN [s EXCEPT !.inbox = <<>>, !.recv = @ \o s.inbox]
    ELSE Return(s, FALSE)

\* io.Copy(c, destConn) (connect.go:258-260) in its own task: what the
\* destination wrote goes to the stream; it ends when either connection is
\* closed here, or at the end of what the destination wrote once the
\* destination has closed its side, and that is all the task does
StCopyDown(s) ==
    IF s.c = "closed" \/ s.destConn # "open" \/ (s.destOut = <<>> /\ s.destEOF)
    THEN [s EXCEPT !.down = "ended"]
    ELSE [s EXCEPT !.destOut = <<>>, !.back = @ \o s.destOut]

(***************************************************************************)
(* State.                                                                  *)
(***************************************************************************)
VARIABLES
    mpc,        \* loop: "resolve", "backoff", "closing" or "sleep"
    tunnels,    \* loop: the endpoint -> *Tunnel map
    loopB,      \* loop: attempt counter of the backoff b
    d,          \* loop: the wait of the latest failure since the last success
    lastResp,   \* loop: transport/bodyRead/status of the latest resolver response
    endpoints,  \* loop: the list getEndpoints returned last
    fresh,      \* loop: the set built from endpoints
    closing,    \* loop: the endpoint whose tunnel is inside t.Close()
    tunnels0,   \* the map as it was when the latest resolution returned
    startLog,   \* "starting a tunnel to %s" lines of the latest reconciliation
    closeLog,   \* "closing tunnel with %s" lines of the latest reconciliation
    crashed,    \* the process died of a nil dereference
    tun,        \* the Tunnel objects and their keepConnected tasks
    cn,         \* the frame of a connect call run step by step
    gw,         \* what the gateway did in that call: one IO per step, and its reply
    hs,         \* a handshake request on the wire: what connect was given, the
                \* bytes it wrote, and what the gateway decoded from them
    px          \* a proxy call: its accept loop, its session and its streams

vars ==
    <<mpc, tunnels, loopB, d, lastResp, endpoints, fresh, closing, tunnels0,
      startLog, closeLog, crashed, tun, cn, gw, hs, px>>

\* the state of the parts that are also run on their own
unitVars == <<hs, px>>

UnitsIdle == hs = NoHeader /\ px = NoProxy

mgrVars ==
    <<mpc, tunnels, loopB, d, lastResp, endpoints, fresh, closing, tunnels0,
      startLog, closeLog>>

Slots == 1..MaxTunnels

Unlimited == 0 - 1

\* loop is between two calls of t.Close()
NoEndpoint == <<"none">>

NoResp == [transport |-> FALSE, bodyRead |-> FALSE, status |-> 0]

EmptyMap == [e \in {} |-> 0]

NoReply == [form |-> "none", status |-> 0, msg |-> <<>>]

NoGateway == [io |-> <<>>, reply |-> NoReply]

\* a slot that holds no Tunnel
FreeTunnel ==
    [pc |-> "free", address |-> <<>>, ctxDone |-> FALSE, gwConn |-> Nil, b |-> 0,
     d |-> 0, openConns |-> 0, closePc |-> "idle", stale |-> FALSE,
     connects |-> 0]

\* NewTunnel (connect.go:41-52): the object, its context, and the task at the
\* top of keepConnected's loop
NewTunnel(address) == [FreeTunnel EXCEPT !.pc = "select", !.address = address]

Init ==
    /\ mpc = "resolve"
    /\ tunnels = EmptyMap
    /\ loopB = 0
    /\ d = 0
    /\ lastResp = NoResp
    /\ endpoints = <<>>
    /\ fresh = {}
    /\ closing = NoEndpoint
    /\ tunnels0 = EmptyMap
    /\ startLog = <<>>
    /\ closeLog = <<>>
    /\ crashed = FALSE
    /\ tun = [t \in Slots |-> FreeTunnel]
    /\ cn = IdleFrame
    /\ gw = NoGateway
    /\ UnitsIdle

(***************************************************************************)
(* Tunnel.keepConnected (connect.go:54-74) and proxy's accept loop         *)
(* (connect.go:210-229) of the tunnel in slot t.                           *)
(***************************************************************************)
\* one backoff shared by the running tunnels
SetSharedBackoff(t, r) ==
    tun' = [u \in Slots |->
              IF u = t THEN r
              ELSE IF tun[u].pc = "free" THEN tun[u]
              ELSE [tun[u] EXCEPT !.b = r.b]]

Set(t, r) == tun' = [tun EXCEPT ![t] = r]

\* a Close that leaves the connection open
CloseGwKeep(r) == r

\* net.Conn.Close on the connection the field holds
CloseGw(r) ==
    IF r.gwConn = "open"
    THEN [r EXCEPT !.gwConn = "closed", !.openConns = @ - 1]
    ELSE r

\* connect.go:66-67: time.Sleep(d) returns; continue
AfterSleep(r) == [r EXCEPT !.pc = "select", !.d = 0]

\* the task has returned; a Tunnel the map no longer holds is garbage
Returned(t, r) ==
    IF t \in {tunnels[e] : e \in DOMAIN tunnels}
    THEN [r EXCEPT !.pc = "done", !.b = 0, !.connects = 0]
    ELSE FreeTunnel

\* the connect attempts the running tasks have started
RECURSIVE Started(_)
Started(n) == IF n = 0 THEN 0 ELSE tun[n].connects + Started(n - 1)

\* connect.go:58-61: the select at the top of the loop.  The running tasks
\* start at most cap connect attempts between them (Unlimited: any number).
Select(t, cap) ==
    /\ tun[t].pc = "select"
    /\ IF tun[t].ctxDone
       THEN Set(t, Returned(t, tun[t]))
       ELSE /\ cap = Unlimited \/ Started(MaxTunnels) < cap
            /\ Set(t, [tun[t] EXCEPT !.pc = "connect",
                                     !.connects = IF cap = Unlimited THEN @ ELSE @ + 1])
    /\ UNCHANGED <<mgrVars, crashed, cn, gw, unitVars>>

\* connect.go:62-69, 211-219: the call of connect, the assignment of
\* t.gwConn and err, and then b.Duration(), or b.Reset() and the entry into
\* proxy: yamux.Server (the configuration is valid, so it returns a session)
\* and the deferred session.Close touch nothing another thread reads
ConnectCall(t, cap) ==
    /\ tun[t].pc = "connect"
    /\ \E g \in TunnelGateways :
         LET r == Result(connect(tun[t].address, g))
             base == [tun[t] EXCEPT
                        !.gwConn = IF r.ret = "conn" THEN r.conn ELSE Nil,
                        !.stale = @ \/ tun[t].closePc = "call",
                        !.openConns = IF r.conn = "open" THEN @ + 1 ELSE @]
         IN  IF r.ok
             THEN Set(t, [base EXCEPT !.pc = "proxySelect", !.b = Reset(@)])
             ELSE Set(t, [base EXCEPT !.pc = "sleep", !.d = ForAttempt(tun[t].b),
                                      !.b = NextAttempt(@)])
    /\ UNCHANGED <<mgrVars, crashed, cn, gw, unitVars>>

Sleep(t) ==
    /\ tun[t].pc = "sleep"
    /\ Set(t, AfterSleep(tun[t]))
    /\ UNCHANGED <<mgrVars, crashed, cn, gw, unitVars>>

\* a cancelled proxy that leaves the connection to Tunnel.Close
ProxySelectNoClose(t) ==
    /\ tun[t].pc = "proxySelect"
    /\ IF tun[t].ctxDone
       THEN Set(t, [tun[t] EXCEPT !.pc = "select"])
       ELSE Set(t, [tun[t] EXCEPT !.pc = "accept"])
    /\ UNCHANGED <<mgrVars, crashed, cn, gw, unitVars>>

\* connect.go:221-224: on cancellation proxy returns, and session.Close
\* closes the physical connection
ProxySelect(t) ==
    /\ tun[t].pc = "proxySelect"
    /\ IF tun[t].ctxDone
       THEN Set(t, [CloseGw(tun[t]) EXCEPT !.pc = "closeConn"])
       ELSE Set(t, [tun[t] EXCEPT !.pc = "accept"])
    /\ UNCHANGED <<mgrVars, crashed, cn, gw, unitVars>>

\* connect.go:225, 230: a stream arrives and its task is spawned
AcceptStream(t) ==
    /\ tun[t].pc = "accept"
    /\ tun[t].gwConn = "open"
    /\ Set(t, [tun[t] EXCEPT !.pc = "proxySelect"])
    /\ UNCHANGED <<mgrVars, crashed, cn, gw, unitVars>>

\* connect.go:226-229: the session ended (the gateway went away, a keep-alive
\* failed, or the connection was closed); proxy returns through session.Close
AcceptError(t) ==
    /\ tun[t].pc = "accept"
    /\ Set(t, [CloseGw(tun[t]) EXCEPT !.pc = "closeConn"])
    /\ UNCHANGED <<mgrVars, crashed, cn, gw, unitVars>>

\* a wait between the end of a relay and the next attempt
CloseConnThenSleep(t) ==
    /\ tun[t].pc = "closeConn"
    /\ Set(t, [CloseGw(tun[t]) EXCEPT !.pc = "sleep"])
    /\ UNCHANGED <<mgrVars, crashed, cn, gw, unitVars>>

\* connect.go:71: t.gwConn.Close()
CloseConn(t) ==
    /\ tun[t].pc = "closeConn"
    /\ Set(t, [CloseGw(tun[t]) EXCEPT !.pc = "select"])
    /\ UNCHANGED <<mgrVars, crashed, cn, gw, unitVars>>

TaskStep(t, cap) ==
    \/ Select(t, cap)
    \/ ConnectCall(t, cap)
    \/ Sleep(t)
    \/ ProxySelect(t)
    \/ AcceptStream(t)
    \/ AcceptError(t)
    \/ CloseConn(t)

(***************************************************************************)
(* Tunnel.Close (connect.go:76-81), run by the caller's thread: the        *)
(* cancellation, the nil check of t.gwConn, and the call through           *)
(* t.gwConn.  The field is read without synchronisation while the task     *)
(* writes it, so the value called through can differ from the value        *)
(* checked; stale records that the task has written the field between the  *)
(* two.                                                                    *)
(***************************************************************************)
\* connect.go:77
Cancel(r) == [r EXCEPT !.ctxDone = TRUE, !.closePc = "check"]

\* connect.go:78
CloseCheck(t) ==
    /\ tun[t].closePc = "check"
    /\ Set(t, [tun[t] EXCEPT !.closePc = IF tun[t].gwConn = Nil THEN "ret" ELSE "call"])
    /\ UNCHANGED <<mgrVars, crashed, cn, gw, unitVars>>

\* connect.go:79, when the field has been written since the check: the call
\* goes through the value loaded for the check, the previous connection,
\* which the task closed before it called connect again
CloseSeen(r) == [r EXCEPT !.closePc = "ret", !.stale = FALSE]

\* connect.go:79: the field is loaded again (nil: the call panics), or,
\* where the build kept the value of the check, not loaded again
CloseCall(t) ==
    /\ tun[t].closePc = "call"
    /\ \/ IF tun[t].gwConn = Nil
          THEN crashed' = TRUE /\ UNCHANGED tun
          ELSE /\ Set(t, [CloseGw(tun[t]) EXCEPT !.closePc = "ret", !.stale = FALSE])
               /\ UNCHANGED crashed
       \/ /\ tun[t].stale
          /\ Set(t, CloseSeen(tun[t]))
          /\ UNCHANGED crashed
    /\ UNCHANGED <<mgrVars, cn, gw, unitVars>>

(***************************************************************************)
(* loop (connect.go:105-143).                                              *)
(***************************************************************************)
Image(m) == {m[e] : e \in DOMAIN m}

\* slots whose Tunnel is garbage: not in the map and its task has returned
FreeSlots(m, ts) == {t \in Slots : ts[t].pc \in {"free", "done"} /\ t \notin Image(m)}

Min(S) == CHOOSE x \in S : \A y \in S : x <= y

StartOne(e, st) ==
    IF FreeSlots(st.tunnels, st.tun) = {}
    THEN [st EXCEPT !.full = TRUE]
    ELSE LET t == Min(FreeSlots(st.tunnels, st.tun))
         IN  [st EXCEPT !.tunnels = (e :> t) @@ st.tunnels,
                        !.tun = [st.tun EXCEPT ![t] = NewTunnel(e)],
                        !.log = Append(st.log, e)]

\* connect.go:129: if _, ok := tunnels[e]; !ok
IsNew(e, m) == e \notin DOMAIN m

\* connect.go:127-133: the loop over endpoints that starts the missing tunnels
RECURSIVE StartLoop(_, _)
StartLoop(eps, st) ==
    IF eps = <<>> THEN st
    ELSE IF IsNew(Head(eps), st.tunnels)
    THEN StartLoop(Tail(eps), StartOne(Head(eps), st))
    ELSE StartLoop(Tail(eps), st)

Brief(resp) ==
    [transport |-> resp.transport, bodyRead |-> resp.bodyRead, status |-> resp.status]

\* connect.go:117-123: getEndpoints failed; d := b.Duration() and the sleep begins
ResolveError(cap) ==
    /\ mpc = "resolve"
    /\ cap = Unlimited \/ loopB < cap
    /\ \E resp \in Responses :
         /\ getEndpoints(resp).err
         /\ lastResp' = Brief(resp)
    /\ d' = ForAttempt(loopB)
    /\ loopB' = NextAttempt(loopB)
    /\ mpc' = "backoff"
    /\ UNCHANGED <<tunnels, endpoints, fresh, closing, tunnels0, startLog, closeLog,
                   crashed, tun, cn, gw, unitVars>>

\* a failure that goes on to the refresh sleep
BackoffWakeNoContinue ==
    /\ mpc = "backoff"
    /\ mpc' = "sleep"
    /\ UNCHANGED <<tunnels, loopB, d, lastResp, endpoints, fresh, closing, tunnels0,
                   startLog, closeLog, crashed, tun, cn, gw, unitVars>>

\* connect.go:121-122: time.Sleep(d) returns; continue
BackoffWake ==
    /\ mpc = "backoff"
    /\ mpc' = "resolve"
    /\ UNCHANGED <<tunnels, loopB, d, lastResp, endpoints, fresh, closing, tunnels0,
                   startLog, closeLog, crashed, tun, cn, gw, unitVars>>

\* connect.go:117-133: getEndpoints succeeded on a response of R; b.Reset(),
\* fresh is built and the missing tunnels are started
ResolveOKFrom(R) ==
    /\ mpc = "resolve"
    /\ \E resp \in R :
         LET res == getEndpoints(resp)
             st == StartLoop(res.endpoints,
                             [tunnels |-> tunnels, tun |-> tun, log |-> <<>>,
                              full |-> FALSE])
         IN  /\ ~res.err
             /\ ~st.full
             /\ lastResp' = Brief(resp)
             /\ endpoints' = res.endpoints
             /\ fresh' = Range(res.endpoints)
             /\ tunnels' = st.tunnels
             /\ tun' = st.tun
             /\ startLog' = st.log
    /\ loopB' = Reset(loopB)
    /\ d' = 0
    /\ tunnels0' = tunnels
    /\ closeLog' = <<>>
    /\ mpc' = "closing"
    /\ UNCHANGED <<closing, crashed, cn, gw, unitVars>>

ResolveOK == ResolveOKFrom(Responses)

\* a range that closes every tunnel it visits
IsStaleAlways(e, f) == TRUE

\* connect.go:135: if !fresh[e]
IsStale(e, f) == e \notin f

\* connect.go:134-137: the next stale tunnel of the range; t.Close() is
\* entered and cancels
CloseStale(e) ==
    /\ mpc = "closing"
    /\ closing = NoEndpoint
    /\ e \in DOMAIN tunnels
    /\ e \notin Range(closeLog)
    /\ IsStale(e, fresh)
    /\ closing' = e
    /\ closeLog' = Append(closeLog, e)
    /\ Set(tunnels[e], Cancel(tun[tunnels[e]]))
    /\ UNCHANGED <<mpc, tunnels, loopB, d, lastResp, endpoints, fresh, tunnels0,
                   startLog, crashed, cn, gw, unitVars>>

\* connect.go:137-138: t.Close() has returned; delete(tunnels, e)
DeleteStale ==
    /\ mpc = "closing"
    /\ closing # NoEndpoint
    /\ tun[tunnels[closing]].closePc = "ret"
    /\ tunnels' = [e \in DOMAIN tunnels \ {closing} |-> tunnels[e]]
    /\ closing' = NoEndpoint
    /\ Set(tunnels[closing],
           IF tun[tunnels[closing]].pc = "done" THEN FreeTunnel
           ELSE [tun[tunnels[closing]] EXCEPT !.closePc = "idle"])
    /\ UNCHANGED <<mpc, loopB, d, lastResp, endpoints, fresh, tunnels0, startLog,
                   closeLog, crashed, cn, gw, unitVars>>

\* connect.go:134, 141: the range is over; time.Sleep(endpointsRefreshInterval)
RangeDone ==
    /\ mpc = "closing"
    /\ closing = NoEndpoint
    /\ \A e \in DOMAIN tunnels : e \in Range(closeLog) \/ ~IsStale(e, fresh)
    /\ mpc' = "sleep"
    /\ UNCHANGED <<tunnels, loopB, d, lastResp, endpoints, fresh, closing, tunnels0,
                   startLog, closeLog, crashed, tun, cn, gw, unitVars>>

\* connect.go:141: the refresh sleep returns and the next iteration begins
RefreshWake ==
    /\ mpc = "sleep"
    /\ mpc' = "resolve"
    /\ endpoints' = <<>>
    /\ fresh' = {}
    /\ tunnels0' = EmptyMap
    /\ startLog' = <<>>
    /\ closeLog' = <<>>
    /\ UNCHANGED <<tunnels, loopB, d, lastResp, closing, crashed, tun, cn, gw, unitVars>>

LoopStep(cap) ==
    \/ ResolveError(cap)
    \/ BackoffWake
    \/ ResolveOK
    \/ \E e \in DOMAIN tunnels : CloseStale(e)
    \/ DeleteStale
    \/ RangeDone
    \/ RefreshWake

(***************************************************************************)
(* The program: the loop, the tasks of the tunnels it started, and its     *)
(* calls of Tunnel.Close.                                                  *)
(***************************************************************************)
Next ==
    /\ ~crashed
    /\ \/ LoopStep(MaxFailures)
       \/ \E t \in Slots : TaskStep(t, MaxConnects)
       \/ \E t \in Slots : CloseCheck(t)
       \/ \E t \in Slots : CloseCall(t)

Spec == Init /\ [][Next]_vars

(***************************************************************************)
(* The loop alone: the tasks of the tunnels are not scheduled, and the     *)
(* resolver may fail any number of times in a row.                         *)
(***************************************************************************)
NextLoop ==
    /\ ~crashed
    /\ \/ LoopStep(Unlimited)
       \/ \E t \in Slots : CloseCheck(t)

SpecLoop == Init /\ [][NextLoop]_vars

(***************************************************************************)
(* The loop alone again, with a resolver that always answers 200 and whose *)
(* bodies are those at the edges of the format.                            *)
(***************************************************************************)
EdgeResponses ==
    [transport : {TRUE}, bodyRead : {TRUE}, status : {StatusOK}, body : EdgeBodies]

NextResolve ==
    /\ ~crashed
    /\ \/ ResolveOKFrom(EdgeResponses)
       \/ \E e \in DOMAIN tunnels : CloseStale(e)
       \/ DeleteStale
       \/ RangeDone
       \/ RefreshWake
       \/ \E t \in Slots : CloseCheck(t)

SpecResolve == Init /\ [][NextResolve]_vars

(***************************************************************************)
(* Two tunnels of the mapping, a and b, with unbounded connect attempts.   *)
(* At any moment a later resolution may find a stale and the loop enter    *)
(* its Close; b stays resolved and is never closed.                        *)
(***************************************************************************)
TheTunnel == CHOOSE t \in Slots : TRUE

OtherTunnel == CHOOSE t \in Slots : t # TheTunnel

InitTunnel ==
    /\ mpc = "sleep"
    /\ tunnels = (<<"a">> :> TheTunnel) @@ (<<"b">> :> OtherTunnel)
    /\ loopB = 0
    /\ d = 0
    /\ lastResp = [transport |-> TRUE, bodyRead |-> TRUE, status |-> StatusOK]
    /\ endpoints = << <<"a">>, <<"b">> >>
    /\ fresh = { <<"a">>, <<"b">> }
    /\ closing = NoEndpoint
    /\ tunnels0 = EmptyMap
    /\ startLog = << <<"a">>, <<"b">> >>
    /\ closeLog = <<>>
    /\ crashed = FALSE
    /\ tun = [t \in Slots |->
                IF t = TheTunnel THEN NewTunnel(<<"a">>)
                ELSE IF t = OtherTunnel THEN NewTunnel(<<"b">>)
                ELSE FreeTunnel]
    /\ cn = IdleFrame
    /\ gw = NoGateway
    /\ UnitsIdle

\* connect.go:137, 77: the loop enters t.Close()
CloseEnter(t) ==
    /\ tun[t].closePc = "idle"
    /\ ~tun[t].ctxDone
    /\ Set(t, Cancel(tun[t]))
    /\ UNCHANGED <<mgrVars, crashed, cn, gw, unitVars>>

\* a nil dereference in Close panics, and the panic ends the process
NextTunnel ==
    /\ ~crashed
    /\ \/ \E t \in {TheTunnel, OtherTunnel} : TaskStep(t, Unlimited)
       \/ CloseEnter(TheTunnel)
       \/ CloseCheck(TheTunnel)
       \/ CloseCall(TheTunnel)

SpecTunnel == InitTunnel /\ [][NextTunnel]_vars

\* the Go scheduler runs every runnable goroutine, and the steps modelled
\* here return (connect is bounded by its deadline, sleeps are finite)
FairSpecTunnel ==
    SpecTunnel /\ \A t \in {TheTunnel, OtherTunnel} : WF_vars(TaskStep(t, Unlimited))

\* the same without the gateway's help: connect and the sleeps return, and
\* Close runs to its end, but a blocked Accept is only sure to return once
\* the physical connection has been closed
FairSpecClose ==
    /\ SpecTunnel
    /\ WF_vars(CloseCheck(TheTunnel))
    /\ WF_vars(CloseCall(TheTunnel))
    /\ \A t \in {TheTunnel, OtherTunnel} :
         /\ WF_vars(Select(t, Unlimited))
         /\ WF_vars(ConnectCall(t, Unlimited))
         /\ WF_vars(Sleep(t))
         /\ WF_vars(ProxySelect(t))
         /\ WF_vars(tun[t].gwConn = "closed" /\ AcceptError(t))
         /\ WF_vars(CloseConn(t))

(***************************************************************************)
(* connect alone, step by step, against every gateway behaviour.           *)
(***************************************************************************)
InitConnect ==
    /\ mpc = "resolve"
    /\ tunnels = EmptyMap
    /\ loopB = 0
    /\ d = 0
    /\ lastResp = NoResp
    /\ endpoints = <<>>
    /\ fresh = {}
    /\ closing = NoEndpoint
    /\ tunnels0 = EmptyMap
    /\ startLog = <<>>
    /\ closeLog = <<>>
    /\ crashed = FALSE
    /\ tun = [t \in Slots |-> FreeTunnel]
    /\ \E addr \in Addrs : cn = connectStart(addr)
    /\ gw = NoGateway
    /\ UnitsIdle

Did(in) == [gw EXCEPT !.io = Append(@, in)]

CnDial ==
    /\ cn.pc = "dial"
    /\ \E in \in IO : cn' = DialStep(cn, in) /\ gw' = Did(in)
    /\ UNCHANGED <<mgrVars, crashed, tun, unitVars>>

CnWriteHeader ==
    /\ cn.pc = "writeHeader"
    /\ \E in \in IO : cn' = WriteHeaderStep(cn, in) /\ gw' = Did(in)
    /\ UNCHANGED <<mgrVars, crashed, tun, unitVars>>

CnWriteConfig ==
    /\ cn.pc = "writeConfig"
    /\ \E in \in IO : cn' = WriteConfigStep(cn, in) /\ gw' = Did(in)
    /\ UNCHANGED <<mgrVars, crashed, tun, unitVars>>

CnReadResp ==
    /\ cn.pc = "readResp"
    /\ \E in \in IO, reply \in Replies :
         /\ cn' = ReadRespStep(cn, in, Encode(reply))
         /\ gw' = [io |-> Append(gw.io, in), reply |-> reply]
    /\ UNCHANGED <<mgrVars, crashed, tun, unitVars>>

CnCheckResp ==
    /\ cn.pc = "checkResp"
    /\ cn' = CheckRespStep(cn)
    /\ UNCHANGED <<mgrVars, crashed, tun, gw, unitVars>>

\* the caller calls connect again
CnAgain ==
    /\ cn.pc = "ret"
    /\ \E addr \in Addrs : cn' = connectStart(addr)
    /\ gw' = NoGateway
    /\ UNCHANGED <<mgrVars, crashed, tun, unitVars>>

NextConnect ==
    \/ CnDial
    \/ CnWriteHeader
    \/ CnWriteConfig
    \/ CnReadResp
    \/ CnCheckResp
    \/ CnAgain

SpecConnect == InitConnect /\ [][NextConnect]_vars

(***************************************************************************)
(* The handshake request alone: connect writes the header and the config   *)
(* of every token, version and config, and the gateway decodes them.       *)
(***************************************************************************)
HeaderStart(token, version, config) ==
    [NoHeader EXCEPT !.pc = "writeHeader", !.token = token, !.version = version,
                     !.config = config]

InitHeader ==
    /\ mpc = "resolve"
    /\ tunnels = EmptyMap
    /\ loopB = 0
    /\ d = 0
    /\ lastResp = NoResp
    /\ endpoints = <<>>
    /\ fresh = {}
    /\ closing = NoEndpoint
    /\ tunnels0 = EmptyMap
    /\ startLog = <<>>
    /\ closeLog = <<>>
    /\ crashed = FALSE
    /\ tun = [t \in Slots |-> FreeTunnel]
    /\ cn = IdleFrame
    /\ gw = NoGateway
    /\ \E token \in Tokens, version \in Versions, config \in Configs :
         hs = HeaderStart(token, version, config)
    /\ px = NoProxy

\* connect.go:170-173, 186
HdWriteHeader ==
    /\ hs.pc = "writeHeader"
    /\ hs' = [hs EXCEPT !.pc = "writeConfig",
                        !.wire = Marshal(NewHeader(hs.token, hs.version, hs.config))]
    /\ UNCHANGED <<mgrVars, crashed, tun, cn, gw, px>>

\* connect.go:190
HdWriteConfig ==
    /\ hs.pc = "writeConfig"
    /\ hs' = [hs EXCEPT !.pc = "sent", !.wire = hs.wire \o hs.config]
    /\ UNCHANGED <<mgrVars, crashed, tun, cn, gw, px>>

\* connect_test.go:141-147
HdDecode ==
    /\ hs.pc = "sent"
    /\ LET h == Unmarshal(hs.wire)
       IN hs' = [hs EXCEPT !.pc = "decoded", !.h = h, !.buf = ReadConfig(hs.wire, h)]
    /\ UNCHANGED <<mgrVars, crashed, tun, cn, gw, px>>

\* the next call of connect
HdAgain ==
    /\ hs.pc = "decoded"
    /\ \E token \in Tokens, version \in Versions, config \in Configs :
         hs' = HeaderStart(token, version, config)
    /\ UNCHANGED <<mgrVars, crashed, tun, cn, gw, px>>

NextHeader ==
    \/ HdWriteHeader
    \/ HdWriteConfig
    \/ HdDecode
    \/ HdAgain

SpecHeader == InitHeader /\ [][NextHeader]_vars

(***************************************************************************)
(* proxy alone on one authenticated connection: the gateway opens streams, *)
(* each with a destination frame (whole, or cut short), sends the request  *)
(* on them and closes them when it likes; any step of a stream's task may  *)
(* meet an I/O error.                                                      *)
(***************************************************************************)
InitProxy ==
    /\ mpc = "resolve"
    /\ tunnels = EmptyMap
    /\ loopB = 0
    /\ d = 0
    /\ lastResp = NoResp
    /\ endpoints = <<>>
    /\ fresh = {}
    /\ closing = NoEndpoint
    /\ tunnels0 = EmptyMap
    /\ startLog = <<>>
    /\ closeLog = <<>>
    /\ crashed = FALSE
    /\ tun = [t \in Slots |-> FreeTunnel]
    /\ cn = IdleFrame
    /\ gw = NoGateway
    /\ hs = NoHeader
    /\ px = [NoProxy EXCEPT !.loop = "select", !.session = "open"]

Streams == 1..MaxStreams

SetStream(i, s) ==
    /\ px' = [px EXCEPT !.streams[i] = s]
    /\ UNCHANGED <<mgrVars, crashed, tun, cn, gw, hs>>

\* session.Open() and the writes of the frame (connect_test.go:92-99)
GwOpen(i) ==
    /\ px.session = "open"
    /\ px.streams[i].pc = "none"
    /\ \A j \in 1..(i - 1) : px.streams[j].pc # "none"
    /\ \E f \in Frames :
         SetStream(i, [NoStream EXCEPT
                         !.pc = "pending", !.name = f.dst, !.c = "open",
                         !.inbox = SubSeq(Frame(f.dst), 1, f.cut),
                         !.gwClosed = IF f.cut < Len(Frame(f.dst)) THEN "early"
                                      ELSE "no"])

\* the gateway writes the request (connect_test.go:107)
GwSend(i) ==
    LET s == px.streams[i]
    IN /\ s.c = "open"
       /\ s.gwClosed = "no"
       /\ s.sent = <<>>
       /\ SetStream(i, [s EXCEPT !.inbox = @ \o Request, !.sent = Request])

\* the gateway closes its side of the stream (connect_test.go:111)
GwClose(i) ==
    LET s == px.streams[i]
    IN /\ s.pc # "none"
       /\ s.gwClosed = "no"
       /\ SetStream(i, [s EXCEPT !.gwClosed = IF s.back = Answer(s.name)
                                              THEN "complete" ELSE "early"])

\* the destination has the request and answers it (connect_test.go:73-75)
DestAnswer(i) ==
    LET s == px.streams[i]
    IN /\ s.destConn = "open"
       /\ s.recv = Request
       /\ s.answered = <<>>
       /\ SetStream(i, [s EXCEPT !.answered = Answer(s.dialed),
                                 !.destOut = Answer(s.dialed)])

\* the destination closes the connection after its answer
\* (connect_test.go:76)
DestClose(i) ==
    LET s == px.streams[i]
    IN /\ s.destConn = "open"
       /\ s.answered # <<>>
       /\ ~s.destEOF
       /\ SetStream(i, [s EXCEPT !.destEOF = TRUE])

\* session.Close() (connect.go:219) closes the streams of the session
CloseSession(p) ==
    [p EXCEPT !.loop = "returned", !.session = "closed",
              !.streams = [i \in Streams |->
                             IF p.streams[i].c = "open"
                             THEN [p.streams[i] EXCEPT !.c = "closed"]
                             ELSE p.streams[i]]]

\* connect.go:221-224: the context of the tunnel is found cancelled
PxCancelled ==
    /\ px.loop = "select"
    /\ px' = CloseSession(px)
    /\ UNCHANGED <<mgrVars, crashed, tun, cn, gw, hs>>

\* connect.go:221-225: it is not
PxSelect ==
    /\ px.loop = "select"
    /\ px' = [px EXCEPT !.loop = "accept"]
    /\ UNCHANGED <<mgrVars, crashed, tun, cn, gw, hs>>

\* connect.go:225, 230: Accept returns the oldest stream not yet accepted,
\* and its task is spawned
PxAccept(i) ==
    /\ px.loop = "accept"
    /\ px.session = "open"
    /\ px.streams[i].pc = "pending"
    /\ \A j \in 1..(i - 1) : px.streams[j].pc # "pending"
    /\ px' = [px EXCEPT !.loop = "select", !.streams[i].pc = "setDeadline"]
    /\ UNCHANGED <<mgrVars, crashed, tun, cn, gw, hs>>

\* connect.go:226-229: the physical connection is dead or was closed
PxAcceptError ==
    /\ px.loop = "accept"
    /\ px' = CloseSession(px)
    /\ UNCHANGED <<mgrVars, crashed, tun, cn, gw, hs>>

\* one step of the task of stream i (connect.go:230-262); a read blocks
\* until its bytes are there or cannot come any more
StreamStep(i) ==
    LET s == px.streams[i]
    IN \E fail \in BOOLEAN :
         \/ s.pc = "setDeadline" /\ SetStream(i, StSetDeadline(s, fail))
         \/ /\ s.pc = "readLen"
            /\ fail \/ Len(s.inbox) >= 2 \/ ShortRead(s, 2)
            /\ SetStream(i, StReadLen(s, fail))
         \/ /\ s.pc = "readDest"
            /\ fail \/ Len(s.inbox) >= s.dstLen \/ ShortRead(s, s.dstLen)
            /\ SetStream(i, StReadDest(s, fail))
         \/ s.pc = "dial" /\ SetStream(i, StDial(s, fail))
         \/ s.pc = "setDestDeadline" /\ SetStream(i, StSetDestDeadline(s, fail))
         \/ /\ s.pc = "copy"
            /\ fail \/ s.inbox # <<>> \/ s.gwClosed # "no" \/ s.c = "closed"
            /\ SetStream(i, StCopyUp(s, fail))

\* one step of the spawned copy of stream i (connect.go:258-260)
StreamDown(i) ==
    LET s == px.streams[i]
    IN /\ s.down = "running"
       /\ s.destOut # <<>> \/ s.c = "closed" \/ s.destConn # "open" \/ s.destEOF
       /\ SetStream(i, StCopyDown(s))

NextProxy ==
    \/ \E i \in Streams : GwOpen(i) \/ GwSend(i) \/ GwClose(i) \/ DestAnswer(i)
    \/ \E i \in Streams : DestClose(i)
    \/ PxCancelled
    \/ PxSelect
    \/ \E i \in Streams : PxAccept(i)
    \/ PxAcceptError
    \/ \E i \in Streams : StreamStep(i)
    \/ \E i \in Streams : StreamDown(i)

SpecProxy == InitProxy /\ [][NextProxy]_vars

\* the Go scheduler runs every runnable task; the gateway sends what it has
\* to send and a destination that listens answers
FairSpecProxy ==
    /\ SpecProxy
    /\ WF_vars(PxSelect)
    /\ \A i \in Streams :
         /\ WF_vars(PxAccept(i))
         /\ WF_vars(StreamStep(i))
         /\ WF_vars(StreamDown(i))
         /\ WF_vars(GwSend(i))
         /\ WF_vars(DestAnswer(i))

\* the same with nothing asked of the gateway, of the destinations or of
\* the accept loop: only the tasks of the streams are sure to run
FairSpecStreams ==
    /\ SpecProxy
    /\ \A i \in Streams : WF_vars(StreamStep(i)) /\ WF_vars(StreamDown(i))

(***************************************************************************)
(* Properties of the loop.                                                 *)
(***************************************************************************)
NoDup(q) == \A i, j \in DOMAIN q : i # j => q[i] # q[j]

\* a step of the loop's own thread, Tunnel.Close included
LoopMoved ==
    \/ mgrVars' # mgrVars
    \/ \E t \in Slots : tun'[t].closePc # tun[t].closePc

\* the endpoints whose tunnel the reconciliation in progress has to keep
Kept ==
    IF mpc = "resolve" /\ mpc' = "closing" THEN DOMAIN tunnels \cap Range(endpoints')
    ELSE IF mpc = "closing" THEN DOMAIN tunnels \cap Range(endpoints)
    ELSE {}

\* once the reconciliation of a resolution F against the map M is over: one
\* tunnel was started for each endpoint of F \ M and none else, Close was
\* called once on each tunnel of M \ F and on none else, the map holds
\* exactly F, and each endpoint of M /\ F still maps to the tunnel it had,
\* which is not canceled
C1_Outcome ==
    LET M == DOMAIN tunnels0
        F == Range(endpoints)
    IN  mpc = "sleep" =>
          /\ NoDup(startLog) /\ Range(startLog) = F \ M
          /\ NoDup(closeLog) /\ Range(closeLog) = M \ F
          /\ DOMAIN tunnels = F
          /\ \A e, g \in F : tunnels[e] = tunnels[g] => e = g
          /\ \A e \in M \cap F :
                /\ tunnels[e] = tunnels0[e]
                /\ ~tun[tunnels[e]].ctxDone
                /\ tun[tunnels[e]].closePc = "idle"
                /\ tun[tunnels[e]].pc # "free"

\* no step of the loop changes anything of a tunnel it has to keep: its
\* task's position, its connection, its backoff counter, its context
C1_KeptUntouched ==
    LoopMoved =>
        \A e \in Kept :
            /\ e \in DOMAIN tunnels'
            /\ tunnels'[e] = tunnels[e]
            /\ tun'[tunnels[e]] = tun[tunnels[e]]

\* C1: a successful resolution F against the map M starts exactly one tunnel
\* per endpoint of F \ M, cancels and removes exactly the tunnels of M \ F,
\* and leaves the tunnels of M /\ F untouched; with F = M nothing is started
\* or stopped.
C1_Reconciliation == []C1_Outcome /\ [][C1_KeptUntouched]_vars

\* {a, b} reconciled against {b, c}: c started, a closed, and b, which is
\* connected, kept
C1_Witness ==
    /\ mpc = "sleep"
    /\ DOMAIN tunnels0 = { <<"a">>, <<"b">> }
    /\ Range(endpoints) = { <<"b">>, <<"c">> }
    /\ startLog = << <<"c">> >>
    /\ closeLog = << <<"a">> >>
    /\ tun[tunnels[<<"b">>]].gwConn = "open"

\* the three failures of getEndpoints
IsFailure(resp) == ~resp.transport \/ ~resp.bodyRead \/ resp.status # StatusOK

\* C2: a failed resolution (transport error, body read error, status other
\* than 200) sends the loop to its backoff wait, and neither the failure nor
\* the wait changes the map, starts a tunnel, or cancels or closes one.
C2_FailureKeepsTunnels ==
    [][
        /\ (mpc = "resolve" /\ mpc' # "resolve" /\ IsFailure(lastResp'))
              => (mpc' = "backoff" /\ tunnels' = tunnels /\ tun' = tun)
        /\ (mpc = "backoff")
              => /\ tunnels' = tunnels
                 /\ mpc' \in {"backoff", "resolve"}
                 /\ \A t \in Slots :
                       /\ tun[t].pc = "free" => tun'[t].pc = "free"
                       /\ ~tun[t].ctxDone => ~tun'[t].ctxDone
                       /\ tun'[t].closePc = tun[t].closePc
    ]_vars

\* the resolver answered 500 while a tunnel is connected
C2_Witness ==
    /\ mpc = "backoff"
    /\ lastResp.transport /\ lastResp.bodyRead /\ lastResp.status = 500
    /\ \E e \in DOMAIN tunnels : tun[tunnels[e]].gwConn = "open"

\* C3: over a run of consecutive resolver failures the waits never decrease
\* and each lies between BackoffMin and BackoffMax; the failure that follows
\* a successful resolution waits exactly BackoffMin.
C3_ResolverBackoff ==
    [][
        (mpc = "resolve" /\ mpc' = "backoff") =>
            /\ d' >= BackoffMin /\ d' <= BackoffMax
            /\ d' >= d
            /\ ~IsFailure(lastResp) => d' = BackoffMin
    ]_vars

\* a run of failures that reached the maximum wait, after a success
C3_Witness ==
    /\ mpc = "backoff"
    /\ d = BackoffMax
    /\ loopB = MaxAttempt
    /\ tunnels # EmptyMap

(***************************************************************************)
(* Properties of one tunnel.                                               *)
(***************************************************************************)
\* C4: a tunnel holds at most one open physical gateway connection at any
\* time, and a connect attempt starts only when every connection the tunnel
\* obtained before has been closed.
C4_OneConnection ==
    \A t \in Slots :
        /\ tun[t].openConns <= 1
        /\ tun[t].pc = "connect" => tun[t].openConns = 0

\* the task is about to reconnect after a connection it had was closed
C4_Witness ==
    /\ tun[TheTunnel].pc = "connect"
    /\ tun[TheTunnel].gwConn = "closed"
    /\ tun[TheTunnel].openConns = 0

\* C5: once Tunnel.Close has called the cancellation handle, the tunnel's
\* task never starts another connect attempt, whatever the interleaving of
\* Close with keepConnected.
C5_NoConnectAfterCancel ==
    [][
        \A t \in Slots :
            (tun[t].ctxDone /\ tun[t].pc = "connect") => tun'[t].pc = "connect"
    ]_vars

\* C6: the task of every tunnel that is in the mapping and was not canceled
\* never stops: it has not returned, and the process that runs it has not
\* been aborted.
C6_NeverStopped ==
    \A e \in DOMAIN tunnels :
        ~tun[tunnels[e]].ctxDone =>
            /\ tun[tunnels[e]].pc \notin {"done", "free"}
            /\ ~crashed

\* as long as the process runs, a task returns only when its tunnel was
\* canceled, and after every failed connect (the backoff sleep) and every
\* end of a relay (the connection is being closed) it calls connect again
\* unless the tunnel is canceled first
KeepConnectedRetries ==
    \A t \in {TheTunnel, OtherTunnel} :
        /\ [](tun[t].pc \in {"done", "free"} => tun[t].ctxDone)
        /\ (tun[t].pc \in {"sleep", "closeConn"} /\ ~tun[t].ctxDone)
              ~> (tun[t].pc = "connect" \/ tun[t].ctxDone \/ crashed)

(***************************************************************************)
(* Properties of connect.                                                  *)
(***************************************************************************)
RECURSIVE Total(_)
\* the time the steps of io need when nothing cuts them short
Total(io) == IF io = <<>> THEN 0 ELSE io[1].lat + Total(Tail(io))

\* the gateway let the dial, the two writes and the status read succeed:
\* none failed, all four ended within the timeout, and the status arrived
\* in full
AllSucceeded ==
    /\ Len(gw.io) = 4
    /\ \A i \in 1..4 : ~gw.io[i].fail
    /\ Total(gw.io) <= Timeout
    /\ gw.reply.form \in {"status", "message"}

\* C7: connect returns an open connection exactly when the dial, the header
\* write, the payload write and the status read all succeed and the status
\* is 200; on every other path it returns an error and no connection, and
\* the connection it had opened, if any, is closed.
C7_ConnectResult ==
    cn.pc = "ret" =>
        IF AllSucceeded /\ gw.reply.status = StatusOK
        THEN cn.ret = "conn" /\ cn.err = NoErr /\ cn.conn = "open"
        ELSE /\ cn.ret = Nil
             /\ cn.err # NoErr
             /\ cn.conn = (IF Len(gw.io) = 1 THEN "none" ELSE "closed")

\* the payload write failed on a connection that was open
C7_Witness ==
    /\ cn.pc = "ret"
    /\ Len(gw.io) = 3
    /\ gw.io[3].fail
    /\ cn.conn = "closed"
    /\ cn.ret = Nil

\* C8: when the gateway accepts the connection, reads header and payload,
\* and answers a status S other than 200, connect fails and the error it
\* returns contains S.
C8_StatusSurfaced ==
    (cn.pc = "ret" /\ AllSucceeded /\ gw.reply.status # StatusOK) =>
        /\ cn.ret = Nil
        /\ cn.err # NoErr
        /\ Contains(cn.err, Itoa(gw.reply.status))

\* the gateway answered 401
C8_Witness ==
    /\ cn.pc = "ret"
    /\ AllSucceeded
    /\ gw.reply.status = 401
    /\ Contains(cn.err, <<"4", "0", "1">>)

\* C9: when the gateway answers a status other than 200 followed by a
\* message size and a message text, the error connect returns contains the
\* message text.
C9_MessageSurfaced ==
    (/\ cn.pc = "ret"
     /\ AllSucceeded
     /\ gw.reply.form = "message"
     /\ gw.reply.status # StatusOK
     /\ gw.reply.msg # <<>>) => Contains(cn.err, gw.reply.msg)

\* C10: one deadline, Timeout after the start of the call, bounds the dial,
\* the two writes and the status read; it is not renewed between them, so
\* a handshake whose steps need more than Timeout fails with a deadline
\* error at the deadline; it is cleared only after the status was read, and
\* a returned connection carries none.
C10_SingleDeadline ==
    /\ cn.pc # "idle" => cn.deadline = Timeout /\ cn.elapsed <= cn.deadline
    /\ cn.pc \in {"writeHeader", "writeConfig", "readResp"} =>
          cn.connDeadline = cn.deadline
    /\ (cn.pc = "ret" /\ Total(gw.io) > Timeout) =>
          /\ cn.ret = Nil
          /\ Contains(cn.err, <<"deadline exceeded">>)
          /\ cn.elapsed = cn.deadline
    /\ (cn.conn = "open" /\ cn.connDeadline = NoDeadline) =>
          cn.pc \in {"checkResp", "ret"}
    /\ cn.ret = "conn" => cn.connDeadline = NoDeadline

\* the gateway never accepts the connection
C10_Witness ==
    /\ cn.pc = "ret"
    /\ Len(gw.io) = 1
    /\ gw.io[1].lat = Forever
    /\ cn.ret = Nil
    /\ Contains(cn.err, <<"deadline exceeded">>)
    /\ cn.elapsed = Timeout

(***************************************************************************)
(* C11.  Handshake header round trip: for every token of at most 36 bytes, *)
(* version of at most 16 bytes and config, the bytes connect has written   *)
(* decode (little-endian: 36-byte token field, 16-byte version field,      *)
(* uint32 config size, then the payload) to the token followed by zero     *)
(* bytes, the version followed by zero bytes, a config size equal to the   *)
(* byte length of the config, and exactly the config as the bytes that     *)
(* follow; nothing else is on the wire.                                    *)
(***************************************************************************)
C11_HeaderRoundTrip ==
    hs.pc = "decoded" =>
        /\ hs.h.Token = hs.token \o Fill(TokenSize - Len(hs.token), 0)
        /\ hs.h.Version = hs.version \o Fill(VersionSize - Len(hs.version), 0)
        /\ hs.h.ConfigSize = Len(hs.config)
        /\ hs.buf = hs.config
        /\ Len(hs.wire) = HeaderSize + Len(hs.config)

\* a short token and a short version were padded, and a config of the
\* greatest length came back
C11_Witness ==
    /\ hs.pc = "decoded"
    /\ Len(hs.token) = 1
    /\ hs.version = <<49, 46, 50, 46, 51>>
    /\ Len(hs.config) = MaxConfig
    /\ hs.buf = hs.config
    /\ hs.h.Token[TokenSize] = 0

(***************************************************************************)
(* C12.  Per-stream destination relay.  A stream whose frame names a       *)
(* destination is only ever connected to that destination.  What that      *)
(* destination has received is, byte for byte and in order, what the       *)
(* gateway sent on the stream after the frame, and what has come back on   *)
(* the stream is, byte for byte and in order, what that destination        *)
(* answered; while the relay runs no byte is lost on the way.  And a       *)
(* stream with a whole frame that names a live destination gets the whole  *)
(* answer of that destination back, unless a step of its task met an       *)
(* error, the gateway closed the stream before the answer was there, or    *)
(* the session ended.                                                      *)
(***************************************************************************)
C12_InOrder ==
    \A i \in Streams :
        LET s == px.streams[i]
        IN /\ s.dialed \in { <<>>, s.name }
           /\ IsPrefix(s.recv, s.sent)
           /\ s.answered \in { <<>>, Answer(s.name) }
           /\ IsPrefix(s.back, s.answered)
           /\ s.pc = "copy" => s.sent = s.recv \o s.inbox
           /\ s.pc = "copy" /\ s.c = "open" => s.answered = s.back \o s.destOut

C12_RoundTrip ==
    \A i \in Streams :
        (px.streams[i].pc = "pending" /\ px.streams[i].name \in Live
            /\ px.streams[i].gwClosed = "no")
        ~> \/ /\ px.streams[i].recv = Request
              /\ px.streams[i].back = Answer(px.streams[i].name)
           \/ px.streams[i].failed
           \/ px.streams[i].gwClosed = "early"
           \/ px.session = "closed"

C12_StreamRelay == []C12_InOrder /\ C12_RoundTrip

\* two streams of one session named different destinations and each has
\* its own destination's answer
C12_Witness ==
    /\ px.session = "open"
    /\ \A i \in Streams :
         /\ px.streams[i].back = Answer(px.streams[i].name)
         /\ px.streams[i].recv = Request
    /\ \E i, j \in Streams : px.streams[i].name # px.streams[j].name

(***************************************************************************)
(* C13.  Per-stream failures are local.  A step at which the task of one   *)
(* stream fails (setting the deadline, reading the destination frame,      *)
(* dialing, copying) ends that task with its stream closed and its         *)
(* destination connection, if it had one, closed; it leaves the session,   *)
(* the accept loop, every other stream and the tunnels as they were.  The  *)
(* session is closed only when the accept loop has returned.               *)
(***************************************************************************)
C13_Step ==
    \A i \in Streams :
        px'.streams[i].failed /\ ~px.streams[i].failed =>
            /\ px'.streams[i].pc = "done"
            /\ px'.streams[i].c = "closed"
            /\ px'.streams[i].destConn # "open"
            /\ px'.session = px.session
            /\ px'.loop = px.loop
            /\ \A j \in Streams \ {i} : px'.streams[j] = px.streams[j]
            /\ tun' = tun

C13_FailureLocal ==
    /\ [](px.session = "closed" <=> px.loop = "returned")
    /\ [][C13_Step]_vars

\* the task of the first stream failed after it had dialed; the session is
\* open, the loop is in Accept again, and the second stream, accepted after
\* the first, has its answer
C13_Witness ==
    /\ px.streams[1].failed
    /\ px.streams[1].destConn = "closed"
    /\ px.session = "open"
    /\ px.loop = "accept"
    /\ px.streams[2].back = Answer(px.streams[2].name)
    /\ px.streams[2].c = "open"

(***************************************************************************)
(* C14.  Tunnels are independent.  A step at which the connect of one      *)
(* tunnel fails, and the step that ends the wait after it, change only     *)
(* that tunnel: the failure advances that tunnel's own backoff counter,    *)
(* and no other tunnel (phase, connection, backoff counter), no part of    *)
(* the manager's state and not its resolver backoff counter changes.       *)
(***************************************************************************)
C14_Step ==
    \A t \in Slots :
        \/ tun[t].pc = "connect" /\ tun'[t].pc = "sleep"
        \/ tun[t].pc = "sleep" /\ tun'[t].pc # "sleep"
        => /\ \A u \in Slots \ {t} : tun'[u] = tun[u]
           /\ loopB' = loopB
           /\ UNCHANGED mgrVars
           /\ tun[t].pc = "connect" => tun'[t].b = NextAttempt(tun[t].b)
           /\ tun[t].pc = "sleep" => tun'[t].b = tun[t].b

C14_TunnelsIndependent == [][C14_Step]_vars

\* one tunnel waits after a failed connect while another tunnel has not
\* failed and the resolver backoff counter is not zero
C14_Witness ==
    \E t, u \in Slots :
        /\ tun[t].pc = "sleep"
        /\ tun[t].b = 1
        /\ tun[u].pc \notin {"free", "done"}
        /\ tun[u].b = 0
        /\ loopB = 1

(***************************************************************************)
(* C15.  Ordering within one tunnel.  The task enters proxy only from a    *)
(* connect that returned an open connection without error, and connect     *)
(* returns that only when the gateway answered 200.  The task starts a     *)
(* connect attempt only from the top of its loop, with no connection open: *)
(* a relay it ran before has ended and its connection has been closed.     *)
(* When the relay ends the task goes on to close the connection, and from  *)
(* there only to the top of the loop; so a relay and a connect attempt of  *)
(* one tunnel never overlap.                                               *)
(***************************************************************************)
Relaying == {"proxySelect", "accept"}

C15_Authenticated ==
    \A g \in TunnelGateways, addr \in Addrs :
        LET f == connect(addr, g)
        IN Result(f).ok => f.resp = StatusOK /\ f.ret = "conn" /\ f.conn = "open"

C15_Step ==
    \A t \in Slots :
        /\ tun'[t].pc \in Relaying /\ tun[t].pc \notin Relaying =>
               /\ tun[t].pc = "connect"
               /\ tun'[t].gwConn = "open"
               /\ tun'[t].openConns = 1
        /\ tun'[t].pc = "connect" /\ tun[t].pc # "connect" =>
               /\ tun[t].pc = "select"
               /\ tun[t].gwConn # "open"
               /\ tun[t].openConns = 0
        /\ tun[t].pc \in Relaying /\ tun'[t].pc \notin Relaying =>
               /\ tun'[t].pc = "closeConn"
               /\ tun'[t].gwConn = "closed"
        /\ tun[t].pc = "closeConn" => tun'[t].pc \in {"closeConn", "select"}

C15_Ordering == []C15_Authenticated /\ [][C15_Step]_vars

\* a relay of the tunnel has ended, its connection is closed, and the task,
\* not cancelled, is at the top of its loop before the next attempt
C15_Witness ==
    /\ tun[TheTunnel].pc = "select"
    /\ tun[TheTunnel].gwConn = "closed"
    /\ ~tun[TheTunnel].ctxDone
    /\ tun[OtherTunnel].pc = "accept"

Transitions ==
    { <<"select", "connect">>, <<"connect", "proxySelect">>, <<"connect", "sleep">>,
      <<"sleep", "select">>, <<"proxySelect", "accept">>, <<"accept", "proxySelect">>,
      <<"proxySelect", "closeConn">>, <<"accept", "closeConn">>,
      <<"closeConn", "select">>, <<"select", "done">>, <<"select", "free">>,
      <<"done", "free">>, <<"free", "select">> }

(***************************************************************************)
(* C16, amended.  The cycle is Connecting -> Relaying -> Disconnected ->   *)
(* Connecting, and Connecting -> BackoffWait -> Connecting: the backoff    *)
(* wait is entered only from a failed connect, and after a relay has ended *)
(* the task closes the connection and goes to the top of its loop, from    *)
(* where it starts the next connect attempt with no wait in between.  The  *)
(* task goes to Closed only from the top of the loop and only when         *)
(* cancellation has been requested; once it has been requested the task    *)
(* reaches Closed from every state, unless the panic of Tunnel.Close has   *)
(* ended the process first.                                                *)
(***************************************************************************)
C16_Step ==
    \A t \in Slots :
        /\ tun'[t].pc # tun[t].pc => <<tun[t].pc, tun'[t].pc>> \in Transitions
        /\ tun[t].pc = "select" /\ tun'[t].pc \in {"done", "free"} => tun[t].ctxDone
        /\ tun[t].pc = "select" /\ ~tun[t].ctxDone /\ tun'[t].pc # "select" =>
               tun'[t].pc = "connect"

Waits == <<5, 10, 20, 40, 60>>

\* the wait after the k-th failure in a row
WaitAfter(k) == IF k <= Len(Waits) THEN Waits[k] ELSE Waits[Len(Waits)]

C17_Step ==
    \A t \in Slots :
        /\ tun[t].pc = "connect" /\ tun'[t].pc = "sleep" =>
               /\ tun'[t].d = WaitAfter(tun[t].b + 1)
               /\ tun'[t].b = IF tun[t].b < MaxAttempt THEN tun[t].b + 1 ELSE MaxAttempt
               /\ tun[t].gwConn = "closed" => tun'[t].d = 5
        /\ tun[t].pc = "connect" /\ tun'[t].pc \in Relaying => tun'[t].b = 0
        /\ tun[t].pc \notin {"connect", "done"} /\ tun'[t].pc \notin {"done", "free"} =>
               tun'[t].b = tun[t].b

C17_Counter ==
    \A t \in Slots :
        /\ tun[t].pc = "sleep" => tun[t].b >= 1 /\ tun[t].d = WaitAfter(tun[t].b)
        /\ tun[t].pc \in Relaying \cup {"closeConn"} => tun[t].b = 0
        /\ tun[t].gwConn # Nil => tun[t].b = 0

C17_TunnelBackoff == []C17_Counter /\ [][C17_Step]_vars

\* one tunnel waits 60 seconds after its fifth failure in a row while
\* the other waits 5 seconds after its first
C17_Witness ==
    /\ tun[TheTunnel].pc = "sleep"
    /\ tun[TheTunnel].b = 5
    /\ tun[TheTunnel].d = 60
    /\ tun[OtherTunnel].pc = "sleep"
    /\ tun[OtherTunnel].b = 1
    /\ tun[OtherTunnel].d = 5

(***************************************************************************)
(* C18.  Manager loop timing.  The loop starts with a resolution, with no  *)
(* sleep before it.  A failed resolution is followed by the backoff sleep  *)
(* and then directly by the next resolution; a successful one by the       *)
(* reconciliation, then the refresh sleep, then the next resolution.  The  *)
(* refresh sleep is entered only from the end of a reconciliation, so it   *)
(* is taken exactly once per successful resolution and never after a       *)
(* failure.                                                                *)
(***************************************************************************)
LoopTransitions ==
    { <<"resolve", "backoff">>, <<"backoff", "resolve">>, <<"resolve", "closing">>,
      <<"closing", "sleep">>, <<"sleep", "resolve">> }

C18_Step ==
    mpc' # mpc =>
        /\ <<mpc, mpc'>> \in LoopTransitions
        /\ mpc = "resolve" => (mpc' = "backoff" <=> IsFailure(lastResp'))
        /\ mpc = "resolve" /\ mpc' = "backoff" => d' = ForAttempt(loopB)
        /\ mpc = "backoff" => IsFailure(lastResp) /\ UNCHANGED <<tunnels, tun>>
        /\ mpc' = "sleep" => ~IsFailure(lastResp) /\ closing = NoEndpoint

C18_LoopTiming == (mpc = "resolve") /\ [][C18_Step]_vars

\* the loop retries after two failures in a row that followed a success:
\* it is resolving again and has not been through the refresh sleep
C18_Witness ==
    /\ mpc = "resolve"
    /\ IsFailure(lastResp)
    /\ loopB = 2
    /\ tunnels # EmptyMap

(***************************************************************************)
(* C19.  Cancellation liveness.  After Tunnel.Close has been called on a   *)
(* tunnel, the task of the tunnel eventually terminates, for every         *)
(* interleaving of Close with the task; so, as long as the task has not    *)
(* terminated, the process is alive to run it.                             *)
(***************************************************************************)
C19_CloseTerminates ==
    /\ [](\A t \in Slots :
            tun[t].closePc # "idle" /\ tun[t].pc \notin {"done", "free"} => ~crashed)
    /\ \A t \in Slots :
         tun[t].closePc # "idle" ~> tun[t].pc \in {"done", "free"}

(***************************************************************************)
(* C20.  Bounded shutdown, as claimed: the worst-case shutdown latency is  *)
(* one backoff interval.  When a cancelled task goes from a failed connect *)
(* into its backoff sleep, the time that connect took, however the gateway *)
(* made it fail, and the sleep together are within the longest backoff     *)
(* interval.                                                               *)
(***************************************************************************)
C20_OneInterval ==
    [][
        \A t \in Slots :
            tun[t].ctxDone /\ tun[t].pc = "connect" /\ tun'[t].pc = "sleep" =>
                \A g \in TunnelGateways :
                    LET f == connect(tun[t].address, g)
                    IN ~Result(f).ok => f.elapsed + tun'[t].d <= BackoffMax
    ]_vars

(***************************************************************************)
(* What holds of the shutdown of a tunnel.  Cancellation changes neither   *)
(* the position of the task nor the wait of a sleep in progress.  A        *)
(* cancelled task starts no connect attempt from the top of its loop; it   *)
(* enters a backoff sleep                                                  *)
(* only from the failure of a connect attempt that was already under way,  *)
(* and from a sleep it goes only to the top of the loop and from there to  *)
(* its end: it completes at most one backoff sleep.  That connect attempt  *)
(* is not interrupted either, so the shutdown takes at most the connect    *)
(* timeout and one backoff interval.                                       *)
(***************************************************************************)
ShutdownStep ==
    \A t \in Slots :
        /\ ~tun[t].ctxDone /\ tun'[t].ctxDone =>
               tun'[t].pc = tun[t].pc /\ tun'[t].d = tun[t].d
        /\ tun[t].ctxDone /\ tun[t].pc = "select" =>
               tun'[t].pc \in {"select", "done", "free"}
        /\ tun[t].ctxDone /\ tun[t].pc = "sleep" =>
               /\ tun'[t].pc \in {"sleep", "select"}
               /\ tun'[t].pc = "sleep" => tun'[t].d = tun[t].d
        /\ tun[t].ctxDone /\ tun'[t].pc = "sleep" /\ tun[t].pc # "sleep" =>
               /\ tun[t].pc = "connect"
               /\ tun'[t].d <= BackoffMax
               /\ \A g \in TunnelGateways :
                      connect(tun[t].address, g).elapsed <= Timeout

BoundedShutdown == [][ShutdownStep]_vars

\* Tunnel.Close has returned and the task is still in the longest backoff
\* sleep, which it entered after the cancellation
SleepsAfterClose ==
    /\ tun[TheTunnel].pc = "sleep"
    /\ tun[TheTunnel].ctxDone
    /\ tun[TheTunnel].closePc = "ret"
    /\ tun[TheTunnel].d = BackoffMax

(***************************************************************************)
(* C21.  The race between Tunnel.Close and reconnection leaks no           *)
(* connection.  Close reads t.gwConn twice while the task writes it, and   *)
(* sees nil, the closed previous connection or the current one.  Whatever  *)
(* it saw: a task that has terminated left no connection it opened open;   *)
(* a connection that is open after Close has returned is the one the field *)
(* holds, in the hands of a task that has not yet looked at the            *)
(* cancellation and closes it when it does; and once the tunnel has been   *)
(* cancelled, every connection it has open gets closed.                    *)
(***************************************************************************)
C21_Closed ==
    \A t \in Slots :
        /\ tun[t].pc \in {"done", "free"} => tun[t].openConns = 0
        /\ tun[t].closePc = "ret" /\ tun[t].openConns > 0 =>
               /\ tun[t].gwConn = "open"
               /\ tun[t].pc = "proxySelect"

C21_NoLeak ==
    /\ []C21_Closed
    /\ \A t \in Slots : (tun[t].ctxDone /\ tun[t].openConns > 0) ~> (tun[t].openConns = 0)

\* Close found nothing to close (nil or the previous connection) and has
\* returned; the connect attempt that was under way has then succeeded
C21_Witness ==
    /\ tun[TheTunnel].closePc = "ret"
    /\ tun[TheTunnel].ctxDone
    /\ tun[TheTunnel].pc = "proxySelect"
    /\ tun[TheTunnel].gwConn = "open"
    /\ tun[TheTunnel].openConns = 1

(***************************************************************************)
(* C22.  A stream's task dials only after it has read the complete         *)
(* destination frame from the stream: the uint16 length and then exactly   *)
(* that many address bytes.  It reaches the dial only from the read of the *)
(* address, with the address the gateway framed; it opens a destination    *)
(* connection only there, to that address.  When the length or the address *)
(* cannot be read in full (short read, I/O error, deadline) the task       *)
(* returns with the stream closed and nothing dialed, and a task that has  *)
(* returned does nothing more.                                             *)
(***************************************************************************)
FrameRead(s) == s.dstLen = Len(s.name) /\ s.dest = s.name

C22_Step ==
    \A i \in Streams :
        LET s == px.streams[i]
            s1 == px'.streams[i]
        IN  /\ s1.pc = "dial" /\ s.pc # "dial" =>
                   /\ s.pc = "readDest"
                   /\ FrameRead(s1)
                   /\ s.inbox = s1.dest \o s1.inbox
            /\ s1.destConn # s.destConn /\ s.destConn = Nil =>
                   /\ s.pc = "dial"
                   /\ FrameRead(s)
                   /\ s1.dialed = s.dest
            /\ s1.dialed # s.dialed => s.pc = "dial"
            /\ s.pc \in {"readLen", "readDest"} /\ s1.pc \notin {"readLen", "readDest", "dial"} =>
                   /\ s1.pc = "done"
                   /\ s1.c = "closed"
                   /\ s1.destConn = Nil
                   /\ s1.dialed = <<>>
            /\ s.pc = "done" => s1.pc = "done" /\ s1.dialed = s.dialed /\ s1.destConn = s.destConn

C22_FrameBeforeDial ==
    /\ [](\A i \in Streams :
            LET s == px.streams[i]
            IN  /\ s.dialed # <<>> \/ s.destConn # Nil \/ s.pc \in {"dial", "setDestDeadline", "copy"}
                      => FrameRead(s)
                /\ s.pc = "done" /\ ~FrameRead(s) =>
                      s.c = "closed" /\ s.destConn = Nil /\ s.dialed = <<>>)
    /\ [][C22_Step]_vars

\* the gateway abandoned a frame after the length: the read of the address
\* was short and the task has returned; on another stream a whole frame
\* was read and its destination dialed
C22_Witness ==
    \E i, j \in Streams :
        /\ px.streams[i].pc = "done"
        /\ px.streams[i].dstLen = 1
        /\ px.streams[i].dest = <<>>
        /\ px.streams[i].c = "closed"
        /\ px.streams[i].dialed = <<>>
        /\ px.streams[j].dialed = px.streams[j].name
        /\ px.streams[j].destConn = "open"

(***************************************************************************)
(* C23.  Relay termination, as claimed: on every relayed stream, as soon   *)
(* as either copy direction has ended (the copy towards the destination    *)
(* because the gateway side closed or failed, the copy towards the stream  *)
(* because the destination closed or failed), both the logical stream and  *)
(* the destination connection are closed.                                  *)
(***************************************************************************)
C23_Step ==
    \A i \in Streams :
        LET s == px.streams[i]
            s1 == px'.streams[i]
            upEnds == s.pc = "copy" /\ s1.pc = "done"
            \* with both connections open here, it ends on the destination's account
            downEnds ==
                /\ s.down = "running" /\ s1.down = "ended"
                /\ s.c = "open" /\ s.destConn = "open"
        IN  upEnds \/ downEnds => s1.c = "closed" /\ s1.destConn = "closed"

C23_BothClosed == [][C23_Step]_vars

(***************************************************************************)
(* C24.  Per-stream cleanup.  On every exit path of a stream's task the    *)
(* logical stream is closed, and the destination connection is closed if   *)
(* it was opened.  The task returns without waiting for the copy it        *)
(* spawned; once it has returned, both connections being closed, the       *)
(* spawned copy ends too.  And a task whose stream has been closed under   *)
(* it returns: neither task outlives its connections for ever.             *)
(***************************************************************************)
TaskRuns(s) ==
    s.pc \in {"setDeadline", "readLen", "readDest", "dial", "setDestDeadline", "copy"}

C24_Exit ==
    \A i \in Streams :
        LET s == px.streams[i]
        IN  /\ s.pc = "done" =>
                  /\ s.c = "closed"
                  /\ s.destConn # "open"
                  /\ s.dialed # <<>> => s.destConn = "closed"
            /\ s.down # "none" => s.dialed # <<>>

C24_Step ==
    \A i \in Streams :
        LET s == px.streams[i]
            s1 == px'.streams[i]
        IN  /\ TaskRuns(s) /\ ~TaskRuns(s1) => s1.pc = "done" /\ s1.down = s.down
            /\ s.pc = "done" => s1.pc = "done" /\ s1.c = s.c /\ s1.destConn = s.destConn

\* a task of the stream is alive past its connections: the spawned copy
\* after the task has returned, or the task itself on a closed stream
Outlives(s) ==
    \/ s.pc = "done" /\ s.down = "running"
    \/ TaskRuns(s) /\ s.c = "closed"

C24_Cleanup ==
    /\ []C24_Exit
    /\ [][C24_Step]_vars
    /\ \A i \in Streams : Outlives(px.streams[i]) ~> ~Outlives(px.streams[i])

\* a task has returned from its copy with both connections closed while
\* the copy it spawned has not ended yet, and another has returned before
\* it dialed
C24_Witness ==
    \E i, j \in Streams :
        /\ px.streams[i].pc = "done"
        /\ px.streams[i].down = "running"
        /\ px.streams[i].c = "closed"
        /\ px.streams[i].destConn = "closed"
        /\ px.streams[j].pc = "done"
        /\ px.streams[j].c = "closed"
        /\ px.streams[j].destConn = Nil

(***************************************************************************)
(* C25.  The manager never starts a tunnel for an empty endpoint address:  *)
(* whatever body a 200 response of the resolver has (empty, blank, with a  *)
(* leading, trailing or doubled ';'), every key of the tunnel mapping is a *)
(* non-empty address, and once the reconciliation of a resolution without  *)
(* any address is over the mapping is empty.                               *)
(***************************************************************************)
C25_NoEmptyEndpoint ==
    /\ \A e \in DOMAIN tunnels : e # <<>>
    /\ \A t \in Slots : tun[t].pc # "free" => tun[t].address # <<>>
    /\ mpc = "sleep" /\ Range(endpoints) \subseteq { <<>> } => tunnels = EmptyMap

====
